---- MODULE Spec2Model ----
(***************************************************************************)
(* State-machine model of the account store (src/src/accounts.ts, lines    *)
(* 1-273) and of the session store (src/src/sessions.ts, lines 1-223).     *)
(*                                                                         *)
(* Granularity: every `await` of the source is one step.  The storage      *)
(* operation an await waits for takes effect at the step in which the      *)
(* await completes, and everything the code runs synchronously after it,   *)
(* up to the next await, belongs to the same step.  A storage write that   *)
(* the code issues without awaiting it (accounts.ts:190) takes effect in   *)
(* a later step of its own.                                                *)
(***************************************************************************)
EXTENDS Integers, Sequences, FiniteSets, TLC

VARIABLES
    settings,       \* AccountDBSettings and SessionStoreSettings (constructor arguments)
    errorListener,  \* whether a listener for the 'error' event is attached to the SessionStore
    opened,         \* AccountStore.open() has run and close() has not
    slAccounts,     \* the 'account' sublevel: name -> UserAccountEntry
    pendingDel,     \* names whose del() was issued and has not yet reached the storage
    cache,          \* SessionStore.cache: SID -> SessionEntry
    now,            \* the wall clock, milliseconds
    calls,          \* per caller: the call in progress, or the call that just returned
    budget          \* how many more calls may start and how many more times the clock may advance

vars == <<settings, errorListener, opened, slAccounts, pendingDel, cache, now, calls, budget>>

(***************************************************************************)
(* Bounds of the model.                                                    *)
(***************************************************************************)
MaxCalls == 3
MaxTicks == 1

Procs == {1, 2}
\* The interval timer that runs the sweeper.
Sweeper == 0
Actors == Procs \cup {Sweeper}

(***************************************************************************)
(* Strings are sequences of one-character strings.                         *)
(***************************************************************************)
Admin     == <<"a", "d", "m", "i", "n">>
Bob       == <<"b", "o", "b">>
StrongPwd == <<"P", "w", "1", "$">>

Digits == {"0", "1", "2", "3", "4", "5", "6", "7", "8", "9"}
BigChars == {"A", "B", "C", "D", "E", "F", "G", "H", "I", "J", "K", "L", "M",
             "N", "O", "P", "Q", "R", "S", "T", "U", "V", "W", "X", "Y", "Z"}
SmallChars == {"a", "b", "c", "d", "e", "f", "g", "h", "i", "j", "k", "l", "m",
               "n", "o", "p", "q", "r", "s", "t", "u", "v", "w", "x", "y", "z"}
WordChars == Digits \cup BigChars \cup SmallChars \cup {"_"}

\* RegExp.prototype.test for a character class: some character of s is in the class.
TestClass(class, s) == \E i \in 1..Len(s) : s[i] \in class
\* /\W/.test(s): some character of s is not a word character.
TestNonWord(s) == \E i \in 1..Len(s) : s[i] \notin WordChars

EmptyMap == [x \in {} |-> x]
Remove(f, k) == [x \in DOMAIN f \ {k} |-> f[x]]
Put(f, k, v) == [x \in DOMAIN f \cup {k} |-> IF x = k THEN v ELSE f[x]]

(***************************************************************************)
(* Time.  Date.prototype.toISOString renders the date and the time of day; *)
(* new Date(iso).getTime() parses it back.                                 *)
(***************************************************************************)
MsPerDay == 1000 * 60 * 60 * 24

ToISOString(ms) == [date |-> ms \div MsPerDay, time |-> ms % MsPerDay]
GetTime(iso)    == iso.date * MsPerDay + iso.time

(***************************************************************************)
(* bcrypt: the digest records the work factor; compare accepts exactly the *)
(* plaintext the digest was made from.                                     *)
(***************************************************************************)
BcryptHash(pass, rounds) == [rounds |-> rounds, of |-> pass]
BcryptCompare(pass, digest) == digest.of = pass

(***************************************************************************)
(* Settings used by the full specification.                                *)
(***************************************************************************)
SessionLength == [shortMinutes |-> 1440, longDays |-> 2, elevatedMinutes |-> 1]

DefaultSettings ==
    [user     |-> [minUsernameLength |-> 3, maxUsernameLength |-> 5],
     password |-> [minPasswordLength |-> 4, useSpecialCharacters |-> TRUE,
                   useNumbers |-> TRUE, useBigAndLittleSymbols |-> TRUE,
                   saltRounds |-> 10],
     sessionLength |-> SessionLength]

\* crypto.randomUUID() and crypto.randomBytes(sidLength): the values drawn.
RandomUUIDs  == {"u1", "u2"}
RandomBytes  == {0, 1}
\* Buffer.toString('base64') of the drawn bytes.
Base64(b) == IF b = 0 THEN "AA==" ELSE "AQ=="
SIDs == {Base64(b) : b \in RandomBytes}

(***************************************************************************)
(* Call records.  pc = "idle": no call yet; pc = "done": the call has      *)
(* returned ret; any other pc: the call is suspended at that await.        *)
(* preAccounts/preCache are the storage and the cache when the call was    *)
(* made; alone says that nothing else has acted since the call was made;    *)
(* again says that a run of the sweeper directly follows another run.      *)
(***************************************************************************)
Undefined == "undefined"
NoHash == [rounds |-> 0, of |-> <<>>]
NoISO == [date |-> 0, time |-> 0]
NoAccount ==
    [name |-> <<>>, pass |-> NoHash, uuid |-> <<>>, root |-> FALSE,
     createdISO |-> NoISO, lastLoginISO |-> "null"]
NoSession ==
    [name |-> <<>>, uuid |-> <<>>, root |-> FALSE, elevated |-> FALSE,
     createdISO |-> NoISO, updatedISO |-> NoISO, type |-> "short"]
NoRet == [err |-> Undefined, val |-> Undefined]

NoCall ==
    [op |-> "idle", pc |-> "idle",
     name |-> <<>>, pass |-> <<>>, root |-> FALSE, typed |-> TRUE, skip |-> FALSE,
     long |-> FALSE, sid |-> "",
     pwdHash |-> NoHash, created |-> NoISO, id |-> <<>>,
     keys |-> <<>>, users |-> <<>>, account |-> NoAccount,
     detached |-> FALSE, session |-> NoSession, again |-> FALSE, failed |-> FALSE,
     ret |-> NoRet, alone |-> TRUE, preAccounts |-> EmptyMap, preCache |-> EmptyMap]

InFlight(c) == c.pc \notin {"idle", "done"}

\* A returned call is visible in the state that follows its return and is
\* forgotten at the next step of anything.
Forget(c) == IF c.pc = "done" THEN NoCall ELSE c

\* Another actor took a step: calls in progress are no longer alone.
Disturb(c) == IF InFlight(c) THEN [c EXCEPT !.alone = FALSE] ELSE Forget(c)

Quiet == pendingDel = {} /\ \A q \in Procs : ~InFlight(calls[q])

\* calls' when caller p moves to record c.
Others(p, c) == [q \in Actors |-> IF q = p THEN c ELSE Disturb(calls[q])]

Start(p, op) ==
    [NoCall EXCEPT !.op = op, !.alone = Quiet,
                   !.preAccounts = slAccounts, !.preCache = cache]

Return(c, err, val) ==
    [NoCall EXCEPT !.op = c.op, !.pc = "done",
                   !.name = c.name, !.pass = c.pass, !.root = c.root,
                   !.typed = c.typed, !.skip = c.skip, !.long = c.long, !.sid = c.sid,
                   !.ret = [err |-> err, val |-> val],
                   !.detached = c.detached, !.session = c.session,
                   !.failed = c.failed,
                   !.alone = c.alone, !.preAccounts = c.preAccounts,
                   !.preCache = c.preCache]

CanCall(p) == opened /\ ~InFlight(calls[p]) /\ budget.calls > 0

(***************************************************************************)
(* The 'account' sublevel.  Keys iterate in byte order.                    *)
(***************************************************************************)
Alphabet == <<"$", "0", "1", "2", "3", "4", "5", "6", "7", "8", "9",
              "A", "B", "C", "D", "E", "F", "G", "H", "I", "J", "K", "L", "M",
              "N", "O", "P", "Q", "R", "S", "T", "U", "V", "W", "X", "Y", "Z", "_",
              "a", "b", "c", "d", "e", "f", "g", "h", "i", "j", "k", "l", "m",
              "n", "o", "p", "q", "r", "s", "t", "u", "v", "w", "x", "y", "z">>
CharCode(ch) == CHOOSE i \in 1..Len(Alphabet) : Alphabet[i] = ch

KeyLess(a, b) ==
    \/ \E i \in 1..Len(a) :
          /\ i <= Len(b)
          /\ \A j \in 1..(i - 1) : a[j] = b[j]
          /\ CharCode(a[i]) < CharCode(b[i])
    \/ Len(a) < Len(b) /\ \A j \in 1..Len(a) : a[j] = b[j]

RECURSIVE SortedKeys(_)
SortedKeys(S) ==
    IF S = {} THEN <<>>
    ELSE LET k == CHOOSE x \in S : \A y \in S \ {x} : KeyLess(x, y)
         IN <<k>> \o SortedKeys(S \ {k})

\* slAccounts.keys(): the iterator reads the keys as they are when it is created.
Keys(db) == SortedKeys(DOMAIN db)

\* exists(name): get() succeeds.
Exists(db, name) == name \in DOMAIN db

\* get(name): the entry with its name attached.
Get(db, name) ==
    [name |-> name, pass |-> db[name].pass, uuid |-> db[name].uuid,
     root |-> db[name].root, createdISO |-> db[name].createdISO,
     lastLoginISO |-> db[name].lastLoginISO]

\* listUsers(): all keys.
ListUsers(db) == Keys(db)

\* listAccountEntries() run without interruption: every entry, in key order.
RECURSIVE EntriesOf(_, _)
EntriesOf(db, keys) ==
    IF keys = <<>> THEN <<>> ELSE <<Get(db, Head(keys))>> \o EntriesOf(db, Tail(keys))
ListAccountEntries(db) == EntriesOf(db, Keys(db))

IsRoot(x) == x.root
Admins(users) == SelectSeq(users, IsRoot)

\* Mutant of PolicyCode: the upper-case check runs before the digit check.
PolicyCodeSwapped(s, user) ==
    IF ~user.typed THEN "ERR_BAD_ENTRY"
    ELSE IF s.user.minUsernameLength > Len(user.name) THEN "ERR_NAME_TOO_SHORT"
    ELSE IF s.user.maxUsernameLength < Len(user.name) THEN "ERR_NAME_TOO_LONG"
    ELSE IF s.password.minPasswordLength > Len(user.pass) THEN "ERR_PASS_TOO_SHORT"
    ELSE IF s.password.useBigAndLittleSymbols /\ ~TestClass(BigChars, user.pass)
         THEN "ERR_PASS_NO_BIG_CHARS"
    ELSE IF s.password.useNumbers /\ ~TestClass(Digits, user.pass)
         THEN "ERR_PASS_NO_NUMS"
    ELSE IF s.password.useBigAndLittleSymbols /\ ~TestClass(SmallChars, user.pass)
         THEN "ERR_PASS_NO_SMALL_CHARS"
    ELSE IF s.password.useSpecialCharacters /\ ~TestNonWord(user.pass)
         THEN "ERR_PASS_NO_SPECIAL_CHARS"
    ELSE Undefined

(***************************************************************************)
(* AccountStore.create: the policy checks, in the order of the code.       *)
(***************************************************************************)
PolicyCode(s, user) ==
    IF ~user.typed THEN "ERR_BAD_ENTRY"
    ELSE IF s.user.minUsernameLength > Len(user.name) THEN "ERR_NAME_TOO_SHORT"
    ELSE IF s.user.maxUsernameLength < Len(user.name) THEN "ERR_NAME_TOO_LONG"
    ELSE IF s.password.minPasswordLength > Len(user.pass) THEN "ERR_PASS_TOO_SHORT"
    ELSE IF s.password.useNumbers /\ ~TestClass(Digits, user.pass)
         THEN "ERR_PASS_NO_NUMS"
    ELSE IF s.password.useBigAndLittleSymbols /\ ~TestClass(BigChars, user.pass)
         THEN "ERR_PASS_NO_BIG_CHARS"
    ELSE IF s.password.useBigAndLittleSymbols /\ ~TestClass(SmallChars, user.pass)
         THEN "ERR_PASS_NO_SMALL_CHARS"
    ELSE IF s.password.useSpecialCharacters /\ ~TestNonWord(user.pass)
         THEN "ERR_PASS_NO_SPECIAL_CHARS"
    ELSE Undefined

\* Mutant of ChecksPolicy: the skipChecks argument is ignored.
ChecksPolicyAlways(skipChecks) == TRUE

\* Whether create runs the policy checks at all.
ChecksPolicy(skipChecks) == ~skipChecks

\* The record create() puts.
NewEntry(c) ==
    [pass |-> c.pwdHash, uuid |-> c.id, root |-> c.root,
     createdISO |-> c.created, lastLoginISO |-> "null"]

\* Mutant of UniqueId: the id is the random part alone.
UniqueIdNoName(username, r) == <<<<>>, r>>

\* `${username}.${crypto.randomUUID()}`
UniqueId(username, r) == <<username, r>>

\* _getUniqueUUID up to its first await: draw the id, open the key iterator.
\* With no key to read the scan is over at once and the put is issued.
GetUniqueUUID(c, r, db) ==
    IF Keys(db) = <<>>
    THEN [c EXCEPT !.id = UniqueId(c.name, r), !.pc = "put", !.keys = <<>>, !.users = <<>>]
    ELSE [c EXCEPT !.id = UniqueId(c.name, r), !.pc = "uuidscan",
                   !.keys = Keys(db), !.users = <<>>]

\* Mutant of NameTaken: the name check is skipped together with the policy checks.
NameTakenUnlessSkipped(db, user, skipChecks) == Exists(db, user.name) /\ ~skipChecks

\* The name check of line 132.
NameTaken(db, user, skipChecks) == Exists(db, user.name)

\* create(): the call and `await this.exists(user.name)`, then the policy checks.
AccCreateCall(p, user, skipChecks) ==
    /\ CanCall(p)
    /\ LET c == [Start(p, "acc.create") EXCEPT
                    !.name = user.name, !.pass = user.pass, !.root = user.root,
                    !.typed = user.typed, !.skip = skipChecks]
           code == PolicyCode(settings, user)
       IN calls' = Others(p,
              IF NameTaken(slAccounts, user, skipChecks)
              THEN Return(c, "ERR_NAME_TAKEN", Undefined)
              ELSE IF ChecksPolicy(skipChecks) /\ code # Undefined
                   THEN Return(c, code, Undefined)
              ELSE [c EXCEPT !.pc = "hash"])
    /\ budget' = [budget EXCEPT !.calls = @ - 1]
    /\ UNCHANGED <<settings, errorListener, opened, slAccounts, pendingDel, cache, now>>

\* create(): `await bcrypt.hash`, the timestamp, and the start of _getUniqueUUID.
AccCreateHash(p) ==
    /\ calls[p].op = "acc.create" /\ calls[p].pc = "hash"
    /\ \E r \in RandomUUIDs :
         LET c == [calls[p] EXCEPT
                     !.pwdHash = BcryptHash(calls[p].pass, settings.password.saltRounds),
                     !.created = ToISOString(now)]
         IN calls' = Others(p, GetUniqueUUID(c, r, slAccounts))
    /\ UNCHANGED <<settings, errorListener, opened, slAccounts, pendingDel, cache, now, budget>>

\* Mutant of UuidTaken: no scan finds the id.
UuidTakenNever(users, id) == FALSE

\* `users.find(x => x.uuid === id)`
UuidTaken(users, id) == \E i \in 1..Len(users) : users[i].uuid = id

\* _getUniqueUUID: one `await this.slAccounts.get(name)` of listAccountEntries;
\* after the last one, the collision check, and on a collision the retry.
AccCreateScan(p) ==
    /\ calls[p].op = "acc.create" /\ calls[p].pc = "uuidscan"
    /\ \E r \in RandomUUIDs :
         LET c     == calls[p]
             k     == Head(c.keys)
             users == Append(c.users, Get(slAccounts, k))
         IN calls' = Others(p,
                IF ~Exists(slAccounts, k) THEN Return(c, "Error:LEVEL_NOT_FOUND", Undefined)
                ELSE IF Tail(c.keys) # <<>>
                     THEN [c EXCEPT !.keys = Tail(c.keys), !.users = users]
                ELSE IF UuidTaken(users, c.id)
                     THEN GetUniqueUUID(c, r, slAccounts)
                ELSE [c EXCEPT !.pc = "put", !.keys = <<>>, !.users = <<>>])
    /\ UNCHANGED <<settings, errorListener, opened, slAccounts, pendingDel, cache, now, budget>>

\* create(): `await this.slAccounts.put(...)` and the return.
\* Mutant of AccCreatePut: the first writer of a name wins.
AccCreatePutIfAbsent(p) ==
    /\ calls[p].op = "acc.create" /\ calls[p].pc = "put"
    /\ slAccounts' = IF Exists(slAccounts, calls[p].name) THEN slAccounts
                     ELSE Put(slAccounts, calls[p].name, NewEntry(calls[p]))
    /\ calls' = Others(p, Return(calls[p], Undefined, Undefined))
    /\ UNCHANGED <<settings, errorListener, opened, pendingDel, cache, now, budget>>

AccCreatePut(p) ==
    /\ calls[p].op = "acc.create" /\ calls[p].pc = "put"
    /\ slAccounts' = Put(slAccounts, calls[p].name, NewEntry(calls[p]))
    /\ calls' = Others(p, Return(calls[p], Undefined, Undefined))
    /\ UNCHANGED <<settings, errorListener, opened, pendingDel, cache, now, budget>>

(***************************************************************************)
(* AccountStore.delete                                                     *)
(***************************************************************************)
\* Mutant of IsLastAdmin: the guard forgets to look at whose account it is.
IsLastAdminAnyName(users, name) == Len(Admins(users)) = 1

\* The guard of line 188 on the scanned entries.
IsLastAdmin(users, name) ==
    Len(Admins(users)) = 1 /\ Admins(users)[1].name = name

\* delete(): the call and `await this.exists(name)`; then listAccountEntries
\* opens its key iterator.
\* The error with which a read of the storage rejects when the storage fails.
IOError == "Error:IO_ERROR"

\* delete(): the call when the read inside exists() rejects with a storage
\* error: exists() catches every error and answers false.
AccDeleteCallFails(p, name) ==
    /\ CanCall(p)
    /\ LET c == [Start(p, "acc.delete") EXCEPT !.name = name, !.failed = TRUE]
       IN calls' = Others(p, Return(c, "ERR_USER_NOT_FOUND", Undefined))
    /\ budget' = [budget EXCEPT !.calls = @ - 1]
    /\ UNCHANGED <<settings, errorListener, opened, slAccounts, pendingDel, cache, now>>

\* delete(): a read of the scan rejects with a storage error:
\* listAccountEntries hands the error back and delete returns it.
AccDeleteScanFails(p) ==
    /\ calls[p].op = "acc.delete" /\ calls[p].pc = "scan"
    /\ calls' = Others(p, Return([calls[p] EXCEPT !.failed = TRUE], IOError, Undefined))
    /\ UNCHANGED <<settings, errorListener, opened, slAccounts, pendingDel, cache, now, budget>>

AccDeleteCall(p, name) ==
    /\ CanCall(p)
    /\ LET c == [Start(p, "acc.delete") EXCEPT !.name = name]
       IN calls' = Others(p,
              IF ~Exists(slAccounts, name) THEN Return(c, "ERR_USER_NOT_FOUND", Undefined)
              ELSE [c EXCEPT !.pc = "scan", !.keys = Keys(slAccounts), !.users = <<>>])
    /\ budget' = [budget EXCEPT !.calls = @ - 1]
    /\ UNCHANGED <<settings, errorListener, opened, slAccounts, pendingDel, cache, now>>

\* delete(): one `await this.slAccounts.get(name)` of listAccountEntries; after
\* the last one, the last-admin guard and `this.slAccounts.del(name)`, which is
\* issued and not awaited.
AccDeleteScan(p) ==
    /\ calls[p].op = "acc.delete" /\ calls[p].pc = "scan"
    /\ LET c     == calls[p]
           k     == Head(c.keys)
           users == Append(c.users, Get(slAccounts, k))
           more  == Exists(slAccounts, k) /\ Tail(c.keys) # <<>>
           dels  == Exists(slAccounts, k) /\ Tail(c.keys) = <<>>
                    /\ ~IsLastAdmin(users, c.name)
       IN /\ calls' = Others(p,
                IF ~Exists(slAccounts, k) THEN Return(c, "Error:LEVEL_NOT_FOUND", Undefined)
                ELSE IF more THEN [c EXCEPT !.keys = Tail(c.keys), !.users = users]
                ELSE IF IsLastAdmin(users, c.name)
                     THEN Return(c, "ERR_CANT_DEL_LAST_ADMIN", Undefined)
                ELSE Return(c, Undefined, Undefined))
          /\ pendingDel' = IF dels THEN pendingDel \cup {c.name} ELSE pendingDel
    /\ UNCHANGED <<settings, errorListener, opened, slAccounts, cache, now, budget>>

\* The del() issued by delete() reaches the storage.
DelLands(name) ==
    /\ name \in pendingDel
    /\ slAccounts' = Remove(slAccounts, name)
    /\ pendingDel' = pendingDel \ {name}
    /\ calls' = [q \in Actors |-> Disturb(calls[q])]
    /\ UNCHANGED <<settings, errorListener, opened, cache, now, budget>>

(***************************************************************************)
(* AccountStore.open and close.  Callers await open() before any other     *)
(* call, so its awaits interleave with nothing and it is one step.         *)
(***************************************************************************)
\* Mutant of NeedsDefaultAdmin: the account is created for an empty store only.
NeedsDefaultAdminWhenEmpty(users) == Len(users) = 0

\* Whether open() creates the default administrator account.
NeedsDefaultAdmin(users) == Len(Admins(users)) = 0

DefaultAdmin(r) ==
    [pass |-> BcryptHash(Admin, settings.password.saltRounds), uuid |-> UniqueId(Admin, r),
     root |-> TRUE, createdISO |-> ToISOString(now), lastLoginISO |-> "null"]

Open(p) ==
    /\ ~opened /\ Quiet
    /\ opened' = TRUE
    /\ \E r \in RandomUUIDs :
         LET c     == [Start(p, "acc.open") EXCEPT !.name = Admin]
             users == ListAccountEntries(slAccounts)
             make  == NeedsDefaultAdmin(users) /\ ~Exists(slAccounts, Admin)
         IN /\ slAccounts' = IF make THEN Put(slAccounts, Admin, DefaultAdmin(r))
                             ELSE slAccounts
            /\ calls' = Others(p,
                  IF NeedsDefaultAdmin(users) /\ Exists(slAccounts, Admin)
                  THEN Return(c, "ERR_NAME_TAKEN", Undefined)
                  ELSE Return(c, Undefined, Undefined))
    /\ UNCHANGED <<settings, errorListener, pendingDel, cache, now, budget>>

Close ==
    /\ opened /\ Quiet
    /\ opened' = FALSE
    /\ calls' = [q \in Actors |-> Forget(calls[q])]
    /\ UNCHANGED <<settings, errorListener, slAccounts, pendingDel, cache, now, budget>>

(***************************************************************************)
(* SessionStore.  A SessionEntry is an object: elevate() keeps a reference *)
(* to it across its awaits.  While the entry is cached the reference is    *)
(* cache[sid]; once destroy() or the sweep has removed it, the object      *)
(* lives on in the call that holds it (detached, session).                 *)
(***************************************************************************)
Detach(c, removed) ==
    IF c.op = "ses.elevate" /\ InFlight(c) /\ ~c.detached /\ c.sid \in removed
    THEN [c EXCEPT !.detached = TRUE, !.session = cache[c.sid]]
    ELSE c

\* The entry create() stores.
NewSession(account, long, t) ==
    [name |-> account.name, uuid |-> account.uuid, root |-> account.root,
     elevated |-> FALSE, createdISO |-> ToISOString(t), updatedISO |-> ToISOString(t),
     type |-> IF long THEN "long" ELSE "short"]

\* EventEmitter.emit('error', ...) throws when no listener is attached.
EmitErrorThrows == ~errorListener

\* Mutant of PasswordsMatch: the await is missing, the condition tests a promise.
PasswordsMatchUnawaited(pass, account) == TRUE

\* `await bcrypt.compare(pass, account.pass)` and its use as a condition.
PasswordsMatch(pass, account) == BcryptCompare(pass, account.pass)

\* create(): the call and `await this.accounts.get(name)`.
\* create(): the call when the read inside accounts.get() rejects with a
\* storage error: get() catches every error and answers undefined.
SesCreateCallFails(p, name, pass, long) ==
    /\ CanCall(p)
    /\ LET c == [Start(p, "ses.create") EXCEPT !.name = name, !.pass = pass, !.long = long,
                                              !.failed = TRUE]
       IN calls' = Others(p, Return(c, "WRONG_PASS_OR_NAME", Undefined))
    /\ budget' = [budget EXCEPT !.calls = @ - 1]
    /\ UNCHANGED <<settings, errorListener, opened, slAccounts, pendingDel, cache, now>>

SesCreateCall(p, name, pass, long) ==
    /\ CanCall(p)
    /\ LET c == [Start(p, "ses.create") EXCEPT !.name = name, !.pass = pass, !.long = long]
       IN calls' = Others(p,
              IF ~Exists(slAccounts, name) THEN Return(c, "WRONG_PASS_OR_NAME", Undefined)
              ELSE [c EXCEPT !.pc = "compare", !.account = Get(slAccounts, name)])
    /\ budget' = [budget EXCEPT !.calls = @ - 1]
    /\ UNCHANGED <<settings, errorListener, opened, slAccounts, pendingDel, cache, now>>

\* create(): `await bcrypt.compare(pass, account.pass)`.
SesCreateCompare(p) ==
    /\ calls[p].op = "ses.create" /\ calls[p].pc = "compare"
    /\ calls' = Others(p,
          IF ~PasswordsMatch(calls[p].pass, calls[p].account)
          THEN Return(calls[p], "WRONG_PASS_OR_NAME", Undefined)
          ELSE [calls[p] EXCEPT !.pc = "sid"])
    /\ UNCHANGED <<settings, errorListener, opened, slAccounts, pendingDel, cache, now, budget>>

\* Mutant of SidTaken: the collision check is missing.
SidTakenNever(map, SID) == FALSE

\* `if (this.cache.get(SID))` of _getUniqueSID (line 188).
SidTaken(map, SID) == SID \in DOMAIN map

\* Mutant of SesCreateSid: a login is recorded in the account.
SesCreateSidStampsLogin(p) ==
    /\ calls[p].op = "ses.create" /\ calls[p].pc = "sid"
    /\ \E b \in RandomBytes :
         LET c   == calls[p]
             SID == Base64(b)
             set == ~SidTaken(cache, SID) /\ ~EmitErrorThrows
         IN /\ cache' = IF set THEN Put(cache, SID, NewSession(c.account, c.long, now))
                        ELSE cache
            /\ slAccounts' = IF set /\ c.name \in DOMAIN slAccounts
                             THEN [slAccounts EXCEPT ![c.name].lastLoginISO = "now"]
                             ELSE slAccounts
            /\ calls' = Others(p,
                  IF SidTaken(cache, SID) THEN c
                  ELSE IF EmitErrorThrows
                       THEN Return(c, "Error:ERR_UNHANDLED_ERROR", Undefined)
                  ELSE Return(c, Undefined, SID))
    /\ UNCHANGED <<settings, errorListener, opened, pendingDel, now, budget>>

\* create(): the randomBytes callback of _getUniqueSID.  On a collision it
\* draws again (another callback).  Otherwise the promise resolves and the
\* rest of create() runs before any other callback: the unconditional
\* emit('error', ...) of line 93, then cache.set.
SesCreateSid(p) ==
    /\ calls[p].op = "ses.create" /\ calls[p].pc = "sid"
    /\ \E b \in RandomBytes :
         LET c   == calls[p]
             SID == Base64(b)
             set == ~SidTaken(cache, SID) /\ ~EmitErrorThrows
         IN /\ cache' = IF set THEN Put(cache, SID, NewSession(c.account, c.long, now))
                        ELSE cache
            /\ calls' = Others(p,
                  IF SidTaken(cache, SID) THEN c
                  ELSE IF EmitErrorThrows
                       THEN Return(c, "Error:ERR_UNHANDLED_ERROR", Undefined)
                  ELSE Return(c, Undefined, SID))
    /\ UNCHANGED <<settings, errorListener, opened, slAccounts, pendingDel, now, budget>>

\* Mutant of RootRequired: the guard reads the root flag of the account as it is now.
RootRequiredOfAccount(session) ==
    ~(session.name \in DOMAIN slAccounts /\ slAccounts[session.name].root)

\* Mutant of RootRequired: the guard is missing.
RootRequiredNever(session) == FALSE

\* The guard of line 131.
RootRequired(session) == ~session.root

\* elevate(): the call, the two synchronous guards, and the issue of
\* this.accounts.get(session.name).
SesElevateCall(p, sid, pass) ==
    /\ CanCall(p)
    /\ LET c == [Start(p, "ses.elevate") EXCEPT !.sid = sid, !.pass = pass]
       IN calls' = Others(p,
              IF sid \notin DOMAIN cache THEN Return(c, "ERR_UNKNOWN_SESSION", Undefined)
              ELSE IF RootRequired(cache[sid]) THEN Return(c, "ERR_ROOT_REQUIRED", Undefined)
              ELSE [c EXCEPT !.pc = "get", !.name = cache[sid].name])
    /\ budget' = [budget EXCEPT !.calls = @ - 1]
    /\ UNCHANGED <<settings, errorListener, opened, slAccounts, pendingDel, cache, now>>

\* elevate(): `await this.accounts.get(session.name)`.
SesElevateGet(p) ==
    /\ calls[p].op = "ses.elevate" /\ calls[p].pc = "get"
    /\ calls' = Others(p,
          IF ~Exists(slAccounts, calls[p].name)
          THEN Return(calls[p], "ERR_UNKNOWN_ACCOUNT", Undefined)
          ELSE [calls[p] EXCEPT !.pc = "compare",
                                !.account = Get(slAccounts, calls[p].name)])
    /\ UNCHANGED <<settings, errorListener, opened, slAccounts, pendingDel, cache, now, budget>>

\* Mutant of Elevated: elevation also counts as activity.
ElevatedAndRenewed(session) ==
    [session EXCEPT !.elevated = TRUE, !.updatedISO = ToISOString(now)]

\* What a successful elevate() writes into the session object (line 140).
Elevated(session) == [session EXCEPT !.elevated = TRUE]

\* elevate(): `await bcrypt.compare(pass, account.pass)` and the write.
SesElevateCompare(p) ==
    /\ calls[p].op = "ses.elevate" /\ calls[p].pc = "compare"
    /\ LET c  == calls[p]
           ok == PasswordsMatch(c.pass, c.account)
       IN /\ cache' = IF ok /\ ~c.detached
                      THEN [cache EXCEPT ![c.sid] = Elevated(cache[c.sid])]
                      ELSE cache
          /\ calls' = Others(p,
                IF ~ok THEN Return(c, "ERR_BAD_PASS", Undefined)
                ELSE IF c.detached
                     THEN Return([c EXCEPT !.session = Elevated(c.session)],
                                 Undefined, Undefined)
                ELSE Return(c, Undefined, Undefined))
    /\ UNCHANGED <<settings, errorListener, opened, slAccounts, pendingDel, now, budget>>

\* Mutant of Renewed: renew stamps the creation time.
RenewedCreation(session, t) == [session EXCEPT !.createdISO = ToISOString(t)]

\* Mutant of Renewed: renew stores the entry again as create() would.
RenewedAsShort(session, t) ==
    [session EXCEPT !.updatedISO = ToISOString(t), !.type = "short"]

\* What renew() writes into the session object (line 159).
Renewed(session, t) == [session EXCEPT !.updatedISO = ToISOString(t)]

\* renew(sid): synchronous.  It returns the cached entry (val names its SID).
SesRenew(p, sid) ==
    /\ CanCall(p)
    /\ LET c == [Start(p, "ses.renew") EXCEPT !.sid = sid]
       IN IF sid \notin DOMAIN cache
          THEN /\ cache' = cache
               /\ calls' = Others(p, Return(c, Undefined, Undefined))
          ELSE /\ cache' = [cache EXCEPT ![sid] = Renewed(cache[sid], now)]
               /\ calls' = Others(p, Return(c, Undefined, sid))
    /\ budget' = [budget EXCEPT !.calls = @ - 1]
    /\ UNCHANGED <<settings, errorListener, opened, slAccounts, pendingDel, now>>

\* Mutant of MapDelete: destroy reports success whatever it found.
MapDeleteAlways(map, sid) == TRUE

\* What Map.prototype.delete returns: whether the key was there.
MapDelete(map, sid) == sid \in DOMAIN map

\* destroy(sid): synchronous; returns what Map.delete returns.
SesDestroy(p, sid) ==
    /\ CanCall(p)
    /\ LET c == [Start(p, "ses.destroy") EXCEPT !.sid = sid]
       IN /\ cache' = Remove(cache, sid)
          /\ calls' = [q \in Actors |->
                         IF q = p
                         THEN Return(c, Undefined,
                                     IF MapDelete(cache, sid) THEN "true" ELSE "false")
                         ELSE Detach(Disturb(calls[q]), {sid})]
    /\ budget' = [budget EXCEPT !.calls = @ - 1]
    /\ UNCHANGED <<settings, errorListener, opened, slAccounts, pendingDel, now>>

(***************************************************************************)
(* The sweeper, _clearOldSessions, run by the interval timer.              *)
(***************************************************************************)
SessionLengths(s) ==
    [short    |-> s.sessionLength.shortMinutes * 1000 * 60,
     long     |-> s.sessionLength.longDays * 1000 * 60 * 60 * 24,
     elevated |-> s.sessionLength.elevatedMinutes * 1000 * 60]

\* Mutant of SessionExpired: a session is kept at the instant it expires.
SessionExpiredAfter(session, t) ==
    t > GetTime(session.updatedISO) + SessionLengths(settings)[session.type]

SessionExpired(session, t) ==
    t >= GetTime(session.updatedISO) + SessionLengths(settings)[session.type]

\* What a run of the sweeper leaves in calls: its own record, and the
\* elevate() calls that hold a session it removed.
Swept(gone) ==
    [q \in Actors |->
        IF q = Sweeper
        THEN [Return(Start(Sweeper, "ses.sweep"), Undefined, Undefined) EXCEPT
                 !.again = (calls[Sweeper].pc = "done")]
        ELSE IF gone = {} THEN Forget(calls[q])
        ELSE Detach(Disturb(calls[q]), gone)]

\* Mutant of ClearOldSessions: each run removes one expired session only.
ClearOneOldSession ==
    LET gone == {sid \in DOMAIN cache : SessionExpired(cache[sid], now)}
        one  == IF gone = {} THEN {} ELSE {CHOOSE sid \in gone : TRUE}
    IN /\ cache' = [sid \in DOMAIN cache \ one |-> cache[sid]]
       /\ calls' = Swept(one)
       /\ UNCHANGED <<settings, errorListener, opened, slAccounts, pendingDel, now, budget>>

ClearOldSessions ==
    LET gone == {sid \in DOMAIN cache : SessionExpired(cache[sid], now)}
    IN /\ cache' = [sid \in DOMAIN cache \ gone |-> cache[sid]]
       /\ calls' = Swept(gone)
       /\ UNCHANGED <<settings, errorListener, opened, slAccounts, pendingDel, now, budget>>

\* Time passes.
Tick(d) ==
    /\ budget.ticks > 0
    /\ now' = now + d
    /\ budget' = [budget EXCEPT !.ticks = @ - 1]
    /\ calls' = [q \in Actors |-> Forget(calls[q])]
    /\ UNCHANGED <<settings, errorListener, opened, slAccounts, pendingDel, cache>>

(***************************************************************************)
(* Inputs: two names, two passwords.                                       *)
(***************************************************************************)
Names     == {Admin, Bob}
Passwords == {Admin, StrongPwd}

\* A record as create() stored it in an earlier run of the process.
Stored(name, pass, root, r) ==
    [pass |-> BcryptHash(pass, DefaultSettings.password.saltRounds), uuid |-> UniqueId(name, r),
     root |-> root, createdISO |-> ToISOString(0), lastLoginISO |-> "null"]

\* What the storage location holds when the process starts: nothing (first
\* run), or the accounts left by an earlier run.
FreshStore == EmptyMap
StoreWithUser ==
    Put(Put(EmptyMap, Admin, Stored(Admin, Admin, TRUE, "u1")),
        Bob, Stored(Bob, StrongPwd, FALSE, "u1"))
StoreWithTwoAdmins ==
    Put(Put(EmptyMap, Admin, Stored(Admin, Admin, TRUE, "u1")),
        Bob, Stored(Bob, StrongPwd, TRUE, "u1"))

\* The clock when the process starts.
StartTime == MsPerDay

InitWith(stores, listeners, ncalls, nticks) ==
    /\ settings = DefaultSettings
    /\ errorListener \in listeners
    /\ opened = FALSE
    /\ slAccounts \in stores
    /\ pendingDel = {}
    /\ cache = EmptyMap
    /\ now = StartTime
    /\ calls = [q \in Actors |-> NoCall]
    /\ budget = [calls |-> ncalls, ticks |-> nticks]

(***************************************************************************)
(* SpecAcc: the account store alone, from a first run.                     *)
(***************************************************************************)
InitAcc == InitWith({FreshStore}, {FALSE}, MaxCalls, 0)

NextAcc ==
    \/ \E p \in Procs : Open(p)
    \/ Close
    \/ \E p \in Procs, name \in Names, pass \in Passwords, root \in BOOLEAN,
          skipChecks \in BOOLEAN :
          AccCreateCall(p, [name |-> name, pass |-> pass, root |-> root, typed |-> TRUE],
                        skipChecks)
    \/ \E p \in Procs : AccCreateHash(p)
    \/ \E p \in Procs : AccCreateScan(p)
    \/ \E p \in Procs : AccCreatePut(p)
    \/ \E p \in Procs, name \in Names : AccDeleteCall(p, name)
    \/ \E p \in Procs : AccDeleteScan(p)
    \/ \E name \in Names : DelLands(name)

SpecAcc == InitAcc /\ [][NextAcc]_vars

(***************************************************************************)
(* Spec: the session store over the account store left by earlier runs.    *)
(***************************************************************************)
Init == InitWith({StoreWithUser, StoreWithTwoAdmins}, BOOLEAN, MaxCalls, MaxTicks)

Next ==
    \/ \E p \in Procs : Open(p)
    \/ Close
    \/ \E p \in Procs, name \in Names, pass \in Passwords, root \in BOOLEAN :
          AccCreateCall(p, [name |-> name, pass |-> pass, root |-> root, typed |-> TRUE],
                        TRUE)
    \/ \E p \in Procs : AccCreateHash(p)
    \/ \E p \in Procs : AccCreateScan(p)
    \/ \E p \in Procs : AccCreatePut(p)
    \/ \E p \in Procs, name \in Names : AccDeleteCall(p, name)
    \/ \E p \in Procs : AccDeleteScan(p)
    \/ \E name \in Names : DelLands(name)
    \/ \E p \in Procs, name \in Names, pass \in Passwords, long \in BOOLEAN :
          SesCreateCall(p, name, pass, long)
    \/ \E p \in Procs : SesCreateCompare(p)
    \/ \E p \in Procs : SesCreateSid(p)
    \/ \E p \in Procs, sid \in SIDs, pass \in Passwords : SesElevateCall(p, sid, pass)
    \/ \E p \in Procs : SesElevateGet(p)
    \/ \E p \in Procs : SesElevateCompare(p)
    \/ \E p \in Procs, sid \in SIDs : SesRenew(p, sid)
    \/ \E p \in Procs, sid \in SIDs : SesDestroy(p, sid)
    \/ ClearOldSessions
    \/ Tick(MsPerDay)

Spec == Init /\ [][Next]_vars

(***************************************************************************)
(* SpecPolicy: one caller creates accounts on a first-run store, under     *)
(* every combination of the three password requirements.                   *)
(***************************************************************************)
MaxPolicyCalls == 1

PolicySettings ==
    {[DefaultSettings EXCEPT !.password.useNumbers = n,
                             !.password.useBigAndLittleSymbols = b,
                             !.password.useSpecialCharacters = x] :
        n \in BOOLEAN, b \in BOOLEAN, x \in BOOLEAN}

PolicyNames ==
    {<<"b", "o">>, Bob, <<"b", "o", "b", "b", "i", "e">>}

PolicyPasswords ==
    {<<"1", "2", "3">>,                 \* too short
     <<"P", "a", "s", "s", "$">>,       \* no digit
     <<"w", "o", "r", "d", "1", "$">>,  \* no upper-case letter
     <<"W", "O", "R", "D", "1", "$">>,  \* no lower-case letter
     <<"W", "o", "r", "d", "1">>,       \* no special character
     <<"u", "s", "e", "r">>,            \* no digit, no upper-case letter, no special character
     <<"1", "2", "3", "4">>,            \* digits only
     <<"_", "_", "_", "_">>,            \* underscores are word characters
     StrongPwd}

InitPolicy ==
    /\ settings \in PolicySettings
    /\ errorListener = FALSE
    /\ opened = FALSE
    /\ slAccounts = FreshStore
    /\ pendingDel = {}
    /\ cache = EmptyMap
    /\ now = StartTime
    /\ calls = [q \in Actors |-> NoCall]
    /\ budget = [calls |-> MaxPolicyCalls, ticks |-> 0]

\* A malformed record (typed = FALSE) is only submitted with the checks on.
NextPolicy ==
    \/ Open(1)
    \/ \E name \in PolicyNames, pass \in PolicyPasswords, root \in BOOLEAN,
          typed \in BOOLEAN, skipChecks \in BOOLEAN :
          /\ typed \/ ~skipChecks
          /\ AccCreateCall(1, [name |-> name, pass |-> pass, root |-> root,
                               typed |-> typed], skipChecks)
    \/ AccCreateHash(1)
    \/ AccCreateScan(1)
    \/ AccCreatePut(1)

SpecPolicy == InitPolicy /\ [][NextPolicy]_vars

(***************************************************************************)
(* SpecUuid: creates and deletes of two further names on a first-run       *)
(* store, so that creates for different names overlap.                     *)
(***************************************************************************)
Carl == <<"c", "a", "r", "l">>
UuidNames == {Bob, Carl}

NextUuid ==
    \/ \E p \in Procs : Open(p)
    \/ \E p \in Procs, name \in UuidNames :
          AccCreateCall(p, [name |-> name, pass |-> StrongPwd, root |-> FALSE,
                            typed |-> TRUE], FALSE)
    \/ \E p \in Procs : AccCreateHash(p)
    \/ \E p \in Procs : AccCreateScan(p)
    \/ \E p \in Procs : AccCreatePut(p)
    \/ \E p \in Procs, name \in UuidNames : AccDeleteCall(p, name)
    \/ \E p \in Procs : AccDeleteScan(p)
    \/ \E name \in UuidNames : DelLands(name)

SpecUuid == InitAcc /\ [][NextUuid]_vars

(***************************************************************************)
(* SpecOpen: the account store opened on what earlier runs left behind.    *)
(* A store without a root account is what two overlapping deletes of the   *)
(* last two root accounts leave.                                           *)
(***************************************************************************)
StoreWithoutRoot == Put(EmptyMap, Bob, Stored(Bob, StrongPwd, FALSE, "u1"))
StoreWithPlainAdmin == Put(EmptyMap, Admin, Stored(Admin, Admin, FALSE, "u1"))

InitOpen ==
    InitWith({FreshStore, StoreWithUser, StoreWithoutRoot, StoreWithPlainAdmin},
             {FALSE}, MaxCalls, 0)

SpecOpen == InitOpen /\ [][NextAcc]_vars

(***************************************************************************)
(* SpecStale: one caller, long enough for a session to outlive its account: *)
(* log in, delete the account, create it again, elevate.                   *)
(***************************************************************************)
MaxStaleCalls == 4

InitStale == InitWith({StoreWithTwoAdmins}, {TRUE}, MaxStaleCalls, MaxTicks)

NextStale ==
    \/ Open(1)
    \/ \E name \in Names, pass \in Passwords, root \in BOOLEAN :
          AccCreateCall(1, [name |-> name, pass |-> pass, root |-> root, typed |-> TRUE],
                        TRUE)
    \/ AccCreateHash(1)
    \/ AccCreateScan(1)
    \/ AccCreatePut(1)
    \/ \E name \in Names : AccDeleteCall(1, name)
    \/ AccDeleteScan(1)
    \/ \E name \in Names : DelLands(name)
    \/ \E name \in Names, pass \in Passwords, long \in BOOLEAN :
          SesCreateCall(1, name, pass, long)
    \/ SesCreateCompare(1)
    \/ SesCreateSid(1)
    \/ \E sid \in SIDs, pass \in Passwords : SesElevateCall(1, sid, pass)
    \/ SesElevateGet(1)
    \/ SesElevateCompare(1)
    \/ \E sid \in SIDs : SesRenew(1, sid)
    \/ ClearOldSessions
    \/ Tick(MsPerDay)

SpecStale == InitStale /\ [][NextStale]_vars

(***************************************************************************)
(* SpecFail: deletes and logins over a storage whose reads can fail.        *)
(***************************************************************************)
InitFail == InitWith({StoreWithUser}, BOOLEAN, MaxCalls, MaxTicks)

NextFail ==
    \/ \E p \in Procs : Open(p)
    \/ \E p \in Procs, name \in Names : AccDeleteCall(p, name)
    \/ \E p \in Procs, name \in Names : AccDeleteCallFails(p, name)
    \/ \E p \in Procs : AccDeleteScan(p)
    \/ \E p \in Procs : AccDeleteScanFails(p)
    \/ \E name \in Names : DelLands(name)
    \/ \E p \in Procs, name \in Names, pass \in Passwords, long \in BOOLEAN :
          SesCreateCall(p, name, pass, long)
    \/ \E p \in Procs, name \in Names, pass \in Passwords, long \in BOOLEAN :
          SesCreateCallFails(p, name, pass, long)
    \/ \E p \in Procs : SesCreateCompare(p)
    \/ \E p \in Procs : SesCreateSid(p)
    \/ ClearOldSessions
    \/ Tick(MsPerDay)

SpecFail == InitFail /\ [][NextFail]_vars

(***************************************************************************)
(* Properties.                                                             *)
(***************************************************************************)
Returned(p, op) == calls[p].pc = "done" /\ calls[p].op = op

InSeq(x, seq) == \E i \in 1..Len(seq) : seq[i] = x
NamesOf(users) == {users[i].name : i \in 1..Len(users)}
RootNames(db) == {n \in DOMAIN db : db[n].root}

\* C1: once open() has completed, some account has root = true.
C1_RootSetNeverEmpty ==
    opened => RootNames(slAccounts) # {}

\* What delete(name) is to return on the store db.
DeleteOutcome(db, name) ==
    IF name \notin DOMAIN db THEN "ERR_USER_NOT_FOUND"
    ELSE IF RootNames(db) = {name} THEN "ERR_CANT_DEL_LAST_ADMIN"
    ELSE Undefined

\* One step seen from a delete(name) that ran with nothing else in progress:
\* the step in which it returns, and the step in which its write lands.
C2_DeleteStep ==
    /\ \A p \in Procs :
         (Returned(p, "acc.delete")' /\ calls'[p].alone) =>
            LET c == calls'[p]
            IN /\ c.ret.err = DeleteOutcome(c.preAccounts, c.name)
               /\ slAccounts' = c.preAccounts
               /\ pendingDel' = IF c.ret.err = Undefined THEN {c.name} ELSE {}
    /\ \A p \in Procs :
         (/\ Returned(p, "acc.delete") /\ calls[p].alone
          /\ calls[p].ret.err = Undefined /\ pendingDel' = {}) =>
            slAccounts' = Remove(calls[p].preAccounts, calls[p].name)

\* C2: a delete(name) that ran with nothing else in progress returns
\* ERR_USER_NOT_FOUND when name was absent and ERR_CANT_DEL_LAST_ADMIN when
\* name was the only root account, and then the store is as it was and no
\* write is on its way; otherwise it returns no error, the only write on its
\* way is the removal of name, and when that write lands the store is the
\* store of before the call without name.
C2_Delete == [][C2_DeleteStep]_vars

C2_Witness ==
    \E p \in Procs :
        /\ Returned(p, "acc.delete") /\ calls[p].alone
        /\ calls[p].ret.err = Undefined
        /\ calls[p].preAccounts[calls[p].name].root
        /\ Cardinality(DOMAIN calls[p].preAccounts) = 2

\* C3: when delete(name) returns without an error, name is in none of
\* listUsers(), listAccountEntries(), get(name), exists(name); when create
\* returns without an error, the new account is in all of them.
C3_PersistedOnReturn ==
    \A p \in Procs :
        LET c == calls[p]
            listed == /\ InSeq(c.name, ListUsers(slAccounts))
                      /\ c.name \in NamesOf(ListAccountEntries(slAccounts))
                      /\ Exists(slAccounts, c.name)
            unlisted == /\ ~InSeq(c.name, ListUsers(slAccounts))
                        /\ c.name \notin NamesOf(ListAccountEntries(slAccounts))
                        /\ ~Exists(slAccounts, c.name)
        IN /\ (Returned(p, "acc.delete") /\ c.alone /\ c.ret.err = Undefined) => unlisted
           /\ (Returned(p, "acc.create") /\ c.alone /\ c.ret.err = Undefined) =>
                 (listed /\ Get(slAccounts, c.name).name = c.name)

\* C4: create with the name of an existing account returns ERR_NAME_TAKEN,
\* whatever the password, the root flag and skipPolicyChecks, and leaves the
\* store (so the record stored under that name) as it was.
C4_NameTaken ==
    \A p \in Procs :
        (Returned(p, "acc.create") /\ calls[p].name \in DOMAIN calls[p].preAccounts) =>
            /\ calls[p].ret.err = "ERR_NAME_TAKEN"
            /\ slAccounts = calls[p].preAccounts

C4_Witness ==
    \E p \in Procs :
        /\ Returned(p, "acc.create") /\ calls[p].name \in DOMAIN calls[p].preAccounts
        /\ calls[p].skip /\ ~calls[p].root
        /\ slAccounts[calls[p].name].root
        /\ ~BcryptCompare(calls[p].pass, slAccounts[calls[p].name].pass)

\* The policy rules in their fixed order, each with whether the settings s
\* make the record user violate it.
PolicyRules(s, user) ==
    << [code |-> "ERR_BAD_ENTRY", violated |-> ~user.typed],
       [code |-> "ERR_NAME_TOO_SHORT",
        violated |-> Len(user.name) < s.user.minUsernameLength],
       [code |-> "ERR_NAME_TOO_LONG",
        violated |-> Len(user.name) > s.user.maxUsernameLength],
       [code |-> "ERR_PASS_TOO_SHORT",
        violated |-> Len(user.pass) < s.password.minPasswordLength],
       [code |-> "ERR_PASS_NO_NUMS",
        violated |-> s.password.useNumbers
                     /\ \A i \in 1..Len(user.pass) : user.pass[i] \notin Digits],
       [code |-> "ERR_PASS_NO_BIG_CHARS",
        violated |-> s.password.useBigAndLittleSymbols
                     /\ \A i \in 1..Len(user.pass) : user.pass[i] \notin BigChars],
       [code |-> "ERR_PASS_NO_SMALL_CHARS",
        violated |-> s.password.useBigAndLittleSymbols
                     /\ \A i \in 1..Len(user.pass) : user.pass[i] \notin SmallChars],
       [code |-> "ERR_PASS_NO_SPECIAL_CHARS",
        violated |-> s.password.useSpecialCharacters
                     /\ \A i \in 1..Len(user.pass) : user.pass[i] \in WordChars] >>

Violations(s, user) ==
    {i \in 1..Len(PolicyRules(s, user)) : PolicyRules(s, user)[i].violated}

FirstViolation(s, user) ==
    IF Violations(s, user) = {} THEN Undefined
    ELSE PolicyRules(s, user)[CHOOSE i \in Violations(s, user) :
                                 \A j \in Violations(s, user) : i <= j].code

UserOf(c) == [name |-> c.name, pass |-> c.pass, root |-> c.root, typed |-> c.typed]

\* The store holds, besides what it held before call c, the account c asked for.
Persisted(c) ==
    /\ DOMAIN slAccounts = DOMAIN c.preAccounts \cup {c.name}
    /\ \A n \in DOMAIN c.preAccounts : slAccounts[n] = c.preAccounts[n]
    /\ BcryptCompare(c.pass, slAccounts[c.name].pass)
    /\ slAccounts[c.name].root = c.root
    /\ slAccounts[c.name].uuid[1] = c.name

\* C5: create with an unused name and the checks on returns the code of the
\* first violated rule of the fixed order and persists nothing; when no rule
\* is violated it returns no code and the account is persisted.
C5_FirstViolatedRule ==
    \A p \in Procs :
        LET c == calls[p]
        IN (/\ Returned(p, "acc.create") /\ c.alone /\ ~c.skip
            /\ c.name \notin DOMAIN c.preAccounts) =>
              /\ c.ret.err = FirstViolation(settings, UserOf(c))
              /\ c.ret.err # Undefined => slAccounts = c.preAccounts
              /\ c.ret.err = Undefined => Persisted(c)

C5_Witness ==
    \E p \in Procs :
        /\ Returned(p, "acc.create") /\ calls[p].alone /\ ~calls[p].skip
        /\ calls[p].name \notin DOMAIN calls[p].preAccounts
        /\ calls[p].ret.err = "ERR_PASS_NO_BIG_CHARS"
        /\ Cardinality(Violations(settings, UserOf(calls[p]))) = 2
        /\ ~settings.password.useNumbers

\* C6: create with an unused name and skipPolicyChecks = true returns no
\* error, whatever the name and the password, and persists the account with
\* the given root flag.
C6_SkipChecks ==
    \A p \in Procs :
        LET c == calls[p]
        IN (/\ Returned(p, "acc.create") /\ c.alone /\ c.skip
            /\ c.name \notin DOMAIN c.preAccounts) =>
              (c.ret.err = Undefined /\ Persisted(c))

C6_Witness ==
    \E p \in Procs :
        /\ Returned(p, "acc.create") /\ calls[p].alone /\ calls[p].skip
        /\ calls[p].name \notin DOMAIN calls[p].preAccounts
        /\ calls[p].root
        /\ Cardinality(Violations(settings, UserOf(calls[p]))) >= 3
        /\ calls[p].ret.err = Undefined

\* The name/password pair of call c was right when the call was made.
RightCredentials(c) ==
    /\ c.name \in DOMAIN c.preAccounts
    /\ BcryptCompare(c.pass, c.preAccounts[c.name].pass)

\* C7: SessionStore.create with an existing name and its password returns
\* [no error, SID], and the cache then maps SID to an entry with the
\* account's name, uuid and root, elevated = false, created-at = updated-at,
\* and kind long if long was asked for, otherwise short.
C7_CreateSession ==
    \A p \in Procs :
        LET c == calls[p]
        IN (Returned(p, "ses.create") /\ c.alone /\ RightCredentials(c)) =>
              /\ c.ret.err = Undefined
              /\ c.ret.val \in DOMAIN cache
              /\ cache[c.ret.val].name = c.name
              /\ cache[c.ret.val].uuid = c.preAccounts[c.name].uuid
              /\ cache[c.ret.val].root = c.preAccounts[c.name].root
              /\ cache[c.ret.val].elevated = FALSE
              /\ cache[c.ret.val].createdISO = cache[c.ret.val].updatedISO
              /\ cache[c.ret.val].type = IF c.long THEN "long" ELSE "short"

\* C8: SessionStore.create with a name that has no account, or with a wrong
\* password, returns WRONG_PASS_OR_NAME and no SID, and leaves the cache as
\* it was.
C8_WrongPassOrName ==
    \A p \in Procs :
        LET c == calls[p]
        IN (Returned(p, "ses.create") /\ c.alone /\ ~RightCredentials(c)) =>
              /\ c.ret = [err |-> "WRONG_PASS_OR_NAME", val |-> Undefined]
              /\ cache = c.preCache

C8_Witness ==
    \E p \in Procs :
        /\ Returned(p, "ses.create") /\ calls[p].alone
        /\ calls[p].name \in DOMAIN calls[p].preAccounts
        /\ ~RightCredentials(calls[p])
        /\ calls[p].preCache # EmptyMap
        /\ calls[p].ret.err = "WRONG_PASS_OR_NAME"

\* C9: a successful elevate leaves the cached entry with elevated = true
\* and kind = "elevated".
C9_ElevateSetsKind ==
    \A p \in Procs :
        LET c == calls[p]
        IN (/\ Returned(p, "ses.elevate") /\ c.alone /\ c.ret.err = Undefined
            /\ c.sid \in DOMAIN cache) =>
              (cache[c.sid].elevated /\ cache[c.sid].type = "elevated")

\* The failures of elevate in their order, each with whether it applies to
\* the cache and the store as they were when the call was made.
ElevateFailures(c) ==
    LET known   == c.sid \in DOMAIN c.preCache
        session == c.preCache[c.sid]
        account == c.preAccounts[session.name]
    IN << [code |-> "ERR_UNKNOWN_SESSION", applies |-> ~known],
          [code |-> "ERR_ROOT_REQUIRED", applies |-> known /\ ~session.root],
          [code |-> "ERR_UNKNOWN_ACCOUNT",
           applies |-> known /\ session.name \notin DOMAIN c.preAccounts],
          [code |-> "ERR_BAD_PASS",
           applies |-> /\ known /\ session.name \in DOMAIN c.preAccounts
                       /\ ~BcryptCompare(c.pass, account.pass)] >>

Applicable(c) == {i \in 1..Len(ElevateFailures(c)) : ElevateFailures(c)[i].applies}

FirstFailure(c) ==
    IF Applicable(c) = {} THEN Undefined
    ELSE ElevateFailures(c)[CHOOSE i \in Applicable(c) :
                               \A j \in Applicable(c) : i <= j].code

\* C10: elevate fails with the first applicable code of the order
\* ERR_UNKNOWN_SESSION, ERR_ROOT_REQUIRED, ERR_UNKNOWN_ACCOUNT, ERR_BAD_PASS,
\* and on each of these failures the cache is as it was.
C10_ElevateFailure ==
    \A p \in Procs :
        LET c == calls[p]
        IN (Returned(p, "ses.elevate") /\ c.alone) =>
              /\ c.ret.err = FirstFailure(c)
              /\ c.ret.err # Undefined => cache = c.preCache

C10_Witness ==
    \E p \in Procs :
        /\ Returned(p, "ses.elevate") /\ calls[p].alone
        /\ calls[p].ret.err = "ERR_UNKNOWN_ACCOUNT"
        /\ ~BcryptCompare(calls[p].pass, BcryptHash(Admin, 10))

\* C11: every cached session with elevated = true has root = true.
C11_ElevatedImpliesRoot ==
    \A sid \in DOMAIN cache : cache[sid].elevated => cache[sid].root

C11_Witness ==
    \E sid \in DOMAIN cache, other \in DOMAIN cache :
        cache[sid].elevated /\ ~cache[other].root

\* renew(sid) as it is to act on the cache of before the call: for a cached
\* sid the entry's updated-at becomes the current time and nothing else
\* changes, and the entry is returned; for any other sid nothing changes and
\* nothing is returned.
RenewOutcome(c) ==
    IF c.sid \in DOMAIN c.preCache
    THEN /\ c.ret = [err |-> Undefined, val |-> c.sid]
         /\ DOMAIN cache = DOMAIN c.preCache
         /\ \A sid \in DOMAIN cache \ {c.sid} : cache[sid] = c.preCache[sid]
         /\ cache[c.sid] = [c.preCache[c.sid] EXCEPT !.updatedISO = cache[c.sid].updatedISO]
         /\ GetTime(cache[c.sid].updatedISO) = now
    ELSE c.ret = NoRet /\ cache = c.preCache

\* C12 as stated: renew(sid) for a cached sid sets updated-at to the current
\* time, strictly greater than the previous updated-at, and returns the
\* entry; for a sid that is not cached it returns nothing and changes nothing.
C12_RenewStrictlyIncreases ==
    \A p \in Procs :
        Returned(p, "ses.renew") =>
            /\ RenewOutcome(calls[p])
            /\ calls[p].sid \in DOMAIN calls[p].preCache =>
                 GetTime(cache[calls[p].sid].updatedISO)
                    > GetTime(calls[p].preCache[calls[p].sid].updatedISO)

\* C12, amended: renew(sid) for a cached sid sets updated-at to the current
\* time, which is not less than the previous updated-at and is greater
\* exactly when the clock has advanced since the previous update, and returns
\* the entry; for a sid that is not cached it returns nothing and changes
\* nothing.
C12_Renew ==
    \A p \in Procs :
        Returned(p, "ses.renew") =>
            /\ RenewOutcome(calls[p])
            /\ calls[p].sid \in DOMAIN calls[p].preCache =>
                 LET before == GetTime(calls[p].preCache[calls[p].sid].updatedISO)
                     after  == GetTime(cache[calls[p].sid].updatedISO)
                 IN after >= before /\ (after > before <=> now > before)

C12_Witness ==
    \E p \in Procs :
        /\ Returned(p, "ses.renew")
        /\ calls[p].sid \in DOMAIN calls[p].preCache
        /\ GetTime(calls[p].preCache[calls[p].sid].updatedISO) < now
        /\ Cardinality(DOMAIN cache) = 2

\* C13: destroy(sid) returns true exactly when sid was cached before the
\* call; after the call sid is not cached and every other entry is as it was.
C13_Destroy ==
    \A p \in Procs :
        LET c == calls[p]
        IN Returned(p, "ses.destroy") =>
              /\ c.ret.err = Undefined
              /\ c.ret.val = (IF c.sid \in DOMAIN c.preCache THEN "true" ELSE "false")
              /\ c.sid \notin DOMAIN cache
              /\ DOMAIN cache = DOMAIN c.preCache \ {c.sid}
              /\ \A sid \in DOMAIN cache : cache[sid] = c.preCache[sid]

C13_Witness ==
    \E p \in Procs :
        /\ Returned(p, "ses.destroy")
        /\ calls[p].ret.val = "true"
        /\ DOMAIN cache # {}

\* The configured time-to-live of a session kind, in milliseconds.
TTL(kind) ==
    IF kind = "short" THEN settings.sessionLength.shortMinutes * 60 * 1000
    ELSE IF kind = "long" THEN settings.sessionLength.longDays * 24 * 60 * 60 * 1000
    ELSE settings.sessionLength.elevatedMinutes * 60 * 1000

ExpiryInstant(session) == GetTime(session.updatedISO) + TTL(session.type)

\* C14: a sweep run at time now removes every session whose expiry instant
\* updated-at + TTL(kind) is at or before now, keeps every session whose
\* expiry instant is after now, and changes no field of a session it keeps.
C14_Sweep ==
    LET c == calls[Sweeper]
    IN Returned(Sweeper, "ses.sweep") =>
          /\ DOMAIN cache \subseteq DOMAIN c.preCache
          /\ \A sid \in DOMAIN c.preCache :
                IF ExpiryInstant(c.preCache[sid]) <= now
                THEN sid \notin DOMAIN cache
                ELSE sid \in DOMAIN cache /\ cache[sid] = c.preCache[sid]

C14_Witness ==
    /\ Returned(Sweeper, "ses.sweep")
    /\ \E sid \in DOMAIN calls[Sweeper].preCache \ DOMAIN cache :
          ExpiryInstant(calls[Sweeper].preCache[sid]) = now
    /\ \E sid \in DOMAIN cache : ExpiryInstant(cache[sid]) > now

\* C15: a run of the sweeper that directly follows another run, at the same
\* instant, removes nothing: the cache is as the first run left it.
C15_SweepTwice ==
    (Returned(Sweeper, "ses.sweep") /\ calls[Sweeper].again) =>
        cache = calls[Sweeper].preCache

C15_Witness ==
    /\ Returned(Sweeper, "ses.sweep") /\ calls[Sweeper].again
    /\ now > StartTime
    /\ cache # EmptyMap

\* C16: a sweep run at or after updated-at + TTL(elevated) removes an
\* elevated session, also when its short or long TTL has not elapsed.
C16_ElevatedTTL ==
    LET c == calls[Sweeper]
    IN Returned(Sweeper, "ses.sweep") =>
          \A sid \in DOMAIN c.preCache :
              (/\ c.preCache[sid].elevated
               /\ now >= GetTime(c.preCache[sid].updatedISO) + TTL("elevated"))
                 => sid \notin DOMAIN cache

\* Caller p's elevate(sid) returns without an error in this step.
ElevateSucceeds(p, sid) ==
    /\ calls[p].op = "ses.elevate" /\ InFlight(calls[p])
    /\ calls'[p].pc = "done" /\ calls'[p].sid = sid
    /\ calls'[p].ret.err = Undefined

\* One step seen from the sessions that are cached before and after it.
C17_KindStep ==
    \A sid \in DOMAIN cache \cap DOMAIN cache' :
        /\ cache'[sid].type # cache[sid].type =>
              /\ cache[sid].type \in {"short", "long"}
              /\ cache'[sid].type = "elevated"
              /\ \E p \in Procs : ElevateSucceeds(p, sid)
        /\ cache[sid].elevated => cache'[sid].elevated

\* C17: the kind of a cached session changes only in a step in which an
\* elevate of it succeeds, and only from short or long to elevated; no step
\* takes a cached session out of the elevated state.
C17_Kind == [][C17_KindStep]_vars

C17_Witness ==
    \E sid \in DOMAIN cache :
        /\ cache[sid].elevated
        /\ cache[sid].updatedISO # cache[sid].createdISO
        /\ cache[sid].type = "long"

\* C18: no two accounts of the store have the same uuid.
C18_UniqueUuid ==
    \A a \in DOMAIN slAccounts, b \in DOMAIN slAccounts :
        a # b => slAccounts[a].uuid # slAccounts[b].uuid

C18_Witness ==
    \E p \in Procs :
        /\ Returned(p, "acc.create") /\ ~calls[p].alone
        /\ calls[p].ret.err = Undefined
        /\ {Bob, Carl} \subseteq DOMAIN slAccounts
        /\ Bob \notin DOMAIN calls[p].preAccounts
        /\ Carl \notin DOMAIN calls[p].preAccounts
        /\ slAccounts[Bob].uuid[2] = slAccounts[Carl].uuid[2]

\* The step in which caller p's SessionStore.create returns a SID.
C19_CreateStep ==
    \A p \in Procs :
        (/\ calls[p].op = "ses.create" /\ InFlight(calls[p])
         /\ calls'[p].pc = "done" /\ calls'[p].ret.err = Undefined) =>
            LET SID == calls'[p].ret.val
            IN /\ SID \notin DOMAIN cache
               /\ DOMAIN cache' = DOMAIN cache \cup {SID}
               /\ \A sid \in DOMAIN cache : cache'[sid] = cache[sid]
               /\ cache'[SID].name = calls'[p].name

\* C19: a successful SessionStore.create adds an entry under a SID that was
\* not cached and leaves every session cached before it, of the same account
\* and of any other, cached and unchanged.
C19_CreateAddsSession == [][C19_CreateStep]_vars

C19_Witness ==
    \E p \in Procs :
        /\ Returned(p, "ses.create") /\ calls[p].ret.err = Undefined
        /\ \E sid \in DOMAIN cache \ {calls[p].ret.val} :
              cache[sid].name = cache[calls[p].ret.val].name

\* open() has created the default root account and nothing else, on the
\* store pre.
DefaultAdminCreated(pre) ==
    /\ DOMAIN slAccounts = DOMAIN pre \cup {Admin}
    /\ \A n \in DOMAIN pre \ {Admin} : slAccounts[n] = pre[n]
    /\ slAccounts[Admin].root
    /\ BcryptCompare(Admin, slAccounts[Admin].pass)

StepOf(p, ops) ==
    /\ calls'[p].op \in ops
    /\ InFlight(calls[p]) => calls'[p].pc # calls[p].pc

\* One step of an elevate, seen from the cache.
C21_ElevateStep ==
    \A p \in Procs :
        StepOf(p, {"ses.elevate"}) =>
            /\ DOMAIN cache' = DOMAIN cache
            /\ \A sid \in DOMAIN cache :
                  /\ cache'[sid] = [cache[sid] EXCEPT !.elevated = cache'[sid].elevated,
                                                     !.type = cache'[sid].type]
                  /\ sid # calls'[p].sid => cache'[sid] = cache[sid]

\* C21: no step of an elevate, successful or not, changes the updated-at,
\* created-at, name, uuid or root of a cached session; it changes at most the
\* elevated flag and the kind of the session it was called for.
C21_ElevateFrame == [][C21_ElevateStep]_vars

C21_Witness ==
    \E p \in Procs :
        /\ Returned(p, "ses.elevate") /\ calls[p].ret.err = Undefined
        /\ calls[p].sid \in DOMAIN cache
        /\ cache[calls[p].sid].elevated
        /\ GetTime(cache[calls[p].sid].updatedISO) < now

\* What elevate(sid, pass) is to return for a cached root session, given the
\* account store db at the time of the call.
ElevateOutcome(db, name, pass) ==
    IF name \notin DOMAIN db THEN "ERR_UNKNOWN_ACCOUNT"
    ELSE IF BcryptCompare(pass, db[name].pass) THEN Undefined
    ELSE "ERR_BAD_PASS"

\* C22: elevate of a cached root session checks the password against the
\* account stored under the session's name when elevate is called: a deleted
\* account gives ERR_UNKNOWN_ACCOUNT, and for an account created again under
\* that name the old password gives ERR_BAD_PASS and the new one succeeds.
C22_ElevateUsesCurrentAccount ==
    \A p \in Procs :
        LET c == calls[p]
        IN (/\ Returned(p, "ses.elevate") /\ c.alone
            /\ c.sid \in DOMAIN c.preCache /\ c.preCache[c.sid].root) =>
              c.ret.err = ElevateOutcome(c.preAccounts, c.preCache[c.sid].name, c.pass)

\* The session was made with the password StrongPwd for an account that has
\* since been created again with another password and so another uuid; the
\* password elevate accepts is the new one.
C22_Witness ==
    \E p \in Procs :
        LET c == calls[p]
        IN /\ Returned(p, "ses.elevate") /\ c.alone /\ c.ret.err = Undefined
           /\ c.sid \in DOMAIN c.preCache
           /\ c.preCache[c.sid].name = Bob
           /\ c.pass = Admin
           /\ c.preAccounts[Bob].uuid # c.preCache[c.sid].uuid

\* One step seen from the sessions cached before and after it, and from an
\* elevate called in it.
C23_SnapshotStep ==
    /\ \A sid \in DOMAIN cache \cap DOMAIN cache' :
          /\ cache'[sid].name = cache[sid].name
          /\ cache'[sid].uuid = cache[sid].uuid
          /\ cache'[sid].root = cache[sid].root
          /\ cache'[sid].createdISO = cache[sid].createdISO
    /\ \A p \in Procs :
          (/\ ~InFlight(calls[p]) /\ calls'[p].op = "ses.elevate"
           /\ budget' # budget
           /\ calls'[p].sid \in DOMAIN cache /\ cache[calls'[p].sid].root) =>
              calls'[p].ret.err # "ERR_ROOT_REQUIRED"

\* C23: no step changes the name, uuid, root or created-at of a cached
\* session, and an elevate of a session cached with root = true passes the
\* root guard whatever the account store holds under the session's name.
C23_Snapshot == [][C23_SnapshotStep]_vars

C23_Witness ==
    \E p \in Procs :
        LET c == calls[p]
        IN /\ Returned(p, "ses.elevate") /\ c.ret.err = Undefined
           /\ c.sid \in DOMAIN cache /\ cache[c.sid].root /\ cache[c.sid].elevated
           /\ cache[c.sid].name \in DOMAIN slAccounts
           /\ ~slAccounts[cache[c.sid].name].root
           /\ slAccounts[cache[c.sid].name].uuid # cache[c.sid].uuid

SessionOps == {"ses.create", "ses.elevate", "ses.renew", "ses.destroy"}
AccountOps == {"acc.open", "acc.create", "acc.delete"}

\* One step seen from the two stores: a step of a SessionStore operation or
\* of the sweeper leaves the account store and the writes on their way to it
\* as they were; a step of an AccountStore operation, and any step that
\* changes the account store, leaves the cache as it was.
C24_StoresStep ==
    /\ ((\E p \in Procs : StepOf(p, SessionOps)) \/ calls'[Sweeper].pc = "done") =>
          (slAccounts' = slAccounts /\ pendingDel' = pendingDel)
    /\ (\/ \E p \in Procs : StepOf(p, AccountOps)
        \/ slAccounts' # slAccounts
        \/ pendingDel' # pendingDel) =>
          cache' = cache

\* C24: no SessionStore operation and no sweep changes the account store
\* (no account is added or removed, no field of an account changes,
\* last-login-at included), and no AccountStore operation changes the cache.
C24_SeparateStores == [][C24_StoresStep]_vars

C24_Witness ==
    \E p \in Procs :
        /\ Returned(p, "ses.create") /\ calls[p].ret.err = Undefined
        /\ slAccounts = calls[p].preAccounts
        /\ slAccounts[calls[p].name].lastLoginISO = "null"
        /\ calls[p].ret.val \in DOMAIN cache

\* The step in which the put of a create lands, for a name that was unused
\* when the call began: the call returns without an error, and the store
\* holds the name once, with the hash, uuid and root flag of this call,
\* whatever another create wrote under the name in between; every other
\* account is as it was.
C25_PutStep ==
    \A p \in Procs :
        (/\ calls[p].op = "acc.create" /\ calls[p].pc = "put"
         /\ calls'[p].pc = "done"
         /\ ~Exists(calls[p].preAccounts, calls[p].name)) =>
            LET c == calls[p] IN
            /\ calls'[p].ret.err = Undefined
            /\ DOMAIN slAccounts' = DOMAIN slAccounts \cup {c.name}
            /\ slAccounts'[c.name].pass = c.pwdHash
            /\ BcryptCompare(c.pass, slAccounts'[c.name].pass)
            /\ slAccounts'[c.name].uuid = c.id
            /\ slAccounts'[c.name].root = c.root
            /\ \A n \in DOMAIN slAccounts \ {c.name} : slAccounts'[n] = slAccounts[n]

\* C25: two overlapping creates of one unused name both return without
\* ERR_NAME_TAKEN, and the account left under the name is the one of the
\* call whose put came last.
C25_LastWriterWins == [][C25_PutStep]_vars

C25_Witness ==
    \E p \in Procs :
        /\ calls[p].op = "acc.create" /\ calls[p].pc = "put"
        /\ ~Exists(calls[p].preAccounts, calls[p].name)
        /\ Exists(slAccounts, calls[p].name)
        /\ slAccounts[calls[p].name].root # calls[p].root
        /\ ~BcryptCompare(calls[p].pass, slAccounts[calls[p].name].pass)
        /\ slAccounts[calls[p].name].uuid # calls[p].id
        /\ \E q \in Procs \ {p} :
              /\ Returned(q, "acc.create") /\ calls[q].ret.err = Undefined
              /\ calls[q].name = calls[p].name
              /\ ~Exists(calls[q].preAccounts, calls[q].name)

\* C26: a call during which the storage failed returns the failure as an
\* error value, never a domain code and never success.
C26_FailureReturnedAsError ==
    \A p \in Procs :
        (calls[p].pc = "done" /\ calls[p].failed) => calls[p].ret.err = IOError

\* C27: emitting a diagnostic event never changes what an operation returns:
\* no SessionStore.create fails with the error that emit('error') throws
\* when no listener is attached.
C27_EmitNeverFails ==
    \A p \in Procs :
        Returned(p, "ses.create") => calls[p].ret.err # "Error:ERR_UNHANDLED_ERROR"

\* The steps in which a generator answers.  _getUniqueSID resolves, and
\* create goes on to store the session, with a SID that is no key of the
\* cache.  _getUniqueUUID returns, and create goes on to its put, with an id
\* that no account of the scan just finished holds; it ends create with an
\* error only when a read of the scan failed.
C28_GeneratorStep ==
    \A p \in Procs :
        /\ (/\ calls[p].op = "ses.create" /\ calls[p].pc = "sid"
            /\ calls'[p].pc = "done" /\ calls'[p].ret.err = Undefined) =>
               calls'[p].ret.val \notin DOMAIN cache
        /\ (/\ calls[p].op = "acc.create" /\ calls[p].pc = "uuidscan"
            /\ calls'[p].pc = "put") =>
               LET users == Append(calls[p].users, Get(slAccounts, Head(calls[p].keys)))
               IN /\ calls'[p].id = calls[p].id
                  /\ \A i \in 1..Len(users) : users[i].uuid # calls'[p].id
        /\ (/\ calls[p].op = "acc.create" /\ calls[p].pc = "uuidscan"
            /\ calls'[p].pc = "done") =>
               (\/ ~Exists(slAccounts, Head(calls[p].keys))
                \/ ~opened')

\* C28: the identifier generators answer only with a candidate that the
\* existence check did not find: no SID that is a key of the cache, no uuid
\* held by an account of the scan; an error comes from a failed scan alone.
C28_Generators == [][C28_GeneratorStep]_vars

C28_Witness ==
    \E p \in Procs :
        /\ calls[p].op = "acc.create" /\ calls[p].pc = "put"
        /\ ~Exists(calls[p].preAccounts, calls[p].name)
        /\ Exists(slAccounts, calls[p].name)
        /\ slAccounts[calls[p].name].uuid # calls[p].id
        /\ slAccounts[calls[p].name].uuid[1] = calls[p].id[1]

\* No step puts another session in the place of a cached one: a SID that is
\* cached before and after a step names the session of the same account,
\* created at the same instant; and a successful create makes the cache one
\* session larger.
C29_NoOverwriteStep ==
    /\ \A sid \in DOMAIN cache \cap DOMAIN cache' :
          /\ cache'[sid].name = cache[sid].name
          /\ cache'[sid].uuid = cache[sid].uuid
          /\ cache'[sid].createdISO = cache[sid].createdISO
    /\ \A p \in Procs :
          (/\ calls[p].op = "ses.create" /\ calls[p].pc = "sid"
           /\ calls'[p].pc = "done" /\ calls'[p].ret.err = Undefined) =>
              Cardinality(DOMAIN cache') = Cardinality(DOMAIN cache) + 1

\* C29: under every interleaving of creates, no successful create overwrites
\* a live session, so two creates never hold the same SID while the first
\* session is cached.
C29_NoOverwrite == [][C29_NoOverwriteStep]_vars

C29_Witness ==
    \E p \in Procs :
        /\ Returned(p, "ses.create") /\ calls[p].ret.err = Undefined
        /\ ~calls[p].alone
        /\ calls[p].preCache = EmptyMap
        /\ Cardinality(DOMAIN cache) = 2
        /\ \E sid \in DOMAIN cache :
              cache[sid].name # cache[calls[p].ret.val].name

\* C30: elevate returns success only for a session that is cached when it
\* completes: the object it marked elevated is the cached one, and none
\* with elevated = TRUE is left outside the cache.
C30_ElevateOnlyCached ==
    \A p \in Procs :
        (Returned(p, "ses.elevate") /\ calls[p].ret.err = Undefined) =>
            /\ ~calls[p].detached
            /\ calls[p].sid \in DOMAIN cache
            /\ cache[calls[p].sid].elevated

\* C31: in every state of the cache the elevated flag and the kind of a
\* session agree: elevated is TRUE exactly when the kind is "elevated".
C31_FlagAgreesWithKind ==
    \A sid \in DOMAIN cache :
        cache[sid].elevated <=> (cache[sid].type = "elevated")

====
